---- MODULE Spec2Model ----
(***************************************************************************)
(* TLS client connection bootstrap of libtls on BearSSL (tls_client.c):    *)
(* tls_connect, tls_connect_servername, tls_connect_fds, tls_connect_cbs   *)
(* and the static tls_connect_common, on one struct tls.                   *)
(*                                                                         *)
(* C strings are sequences of one-character strings; NULL is a value that  *)
(* is no such sequence.  Descriptors are integers, -1 is "none".           *)
(***************************************************************************)
EXTENDS Integers, Sequences, FiniteSets, TLC

\* ------------------------------------------------------------------ bounds
\* Most trailing dots a caller appends to a base name.
MaxDots == 2
\* Longest candidate list getaddrinfo returns.
MaxCands == 3
\* Engine connection objects tls_conn_new may hand out over one session's life.
MaxConns == 2

\* ----------------------------------------------------------------- strings
NULL == <<"NULL">>

Digits == {"0", "1", "2", "3", "4", "5", "6", "7", "8", "9"}
HexDigits == Digits \cup {"a", "b", "c", "d", "e", "f", "A", "B", "C", "D", "E", "F"}

DigitVal(c) ==
    CASE c = "0" -> 0 [] c = "1" -> 1 [] c = "2" -> 2 [] c = "3" -> 3
      [] c = "4" -> 4 [] c = "5" -> 5 [] c = "6" -> 6 [] c = "7" -> 7
      [] c = "8" -> 8 [] c = "9" -> 9

\* strlen
strlen(s) == Len(s)

\* The fields of s between occurrences of the character sep.
RECURSIVE SplitAcc(_, _, _, _)
SplitAcc(s, sep, cur, acc) ==
    IF s = <<>> THEN Append(acc, cur)
    ELSE IF Head(s) = sep THEN SplitAcc(Tail(s), sep, <<>>, Append(acc, cur))
    ELSE SplitAcc(Tail(s), sep, Append(cur, Head(s)), acc)

Split(s, sep) == SplitAcc(s, sep, <<>>, <<>>)

RECURSIVE DecValue(_, _)
DecValue(s, acc) ==
    IF s = <<>> THEN acc ELSE DecValue(Tail(s), 10 * acc + DigitVal(Head(s)))

\* One decimal octet of a dotted quad: 1 to 3 digits, no leading zero, <= 255.
IsOctet(f) ==
    /\ Len(f) \in 1..3
    /\ \A i \in 1..Len(f) : f[i] \in Digits
    /\ (Len(f) > 1 => f[1] # "0")
    /\ DecValue(f, 0) <= 255

Count(s, ch) == Cardinality({i \in 1..Len(s) : s[i] = ch})

\* inet_pton(AF_INET, s, ...) = 1: four decimal octets separated by dots.
inet_pton4(s) ==
    /\ Count(s, ".") = 3
    /\ \A i \in 1..Len(s) : s[i] \in Digits \cup {"."}
    /\ LET f == Split(s, ".") IN \A i \in 1..4 : IsOctet(f[i])

IsHexGroup(f) ==
    /\ Len(f) \in 1..4
    /\ \A i \in 1..Len(f) : f[i] \in HexDigits

\* Number of positions where "::" starts in s.
DoubleColons(s) ==
    Cardinality({i \in 1..(Len(s) - 1) : s[i] = ":" /\ s[i + 1] = ":"})

\* inet_pton(AF_INET6, s, ...) = 1: hexadecimal groups separated by colons,
\* one "::" standing for the groups left out, the last two groups optionally
\* written as a dotted quad.
inet_pton6(s) ==
    LET f == Split(s, ":")
        n == Len(f)
        dc == DoubleColons(s)
        v4tail == n >= 2 /\ \E i \in 1..Len(f[n]) : f[n][i] = "."
        groups == Cardinality({i \in 1..n : f[i] # <<>>}) + (IF v4tail THEN 1 ELSE 0)
    IN
    /\ Len(s) >= 2
    /\ Count(s, ":") >= 2
    /\ dc <= 1
    /\ (s[1] = ":" => s[2] = ":")
    /\ (s[Len(s)] = ":" => s[Len(s) - 1] = ":")
    /\ \A i \in 1..n :
          \/ f[i] = <<>>
          \/ IsHexGroup(f[i])
          \/ (i = n /\ v4tail /\ inet_pton4(f[i]))
    /\ IF dc = 1 THEN groups <= 7 ELSE groups = 8


\* The character sequences of the names callers pass in.
StrEmpty == <<>>
StrExample == <<"e", "x", "a", "m", "p", "l", "e", ".", "c", "o", "m">>
StrV4 == <<"1", "9", "2", ".", "0", ".", "2", ".", "1">>
StrV6 == <<":", ":", "1">>
StrPort == <<"4", "4", "3">>

Bases == {StrEmpty, StrExample, StrV4, StrV6}

RECURSIVE WithDots(_, _)
WithDots(s, k) == IF k = 0 THEN s ELSE WithDots(Append(s, "."), k - 1)

\* Non-null name strings: a base name followed by 0..MaxDots dots.
Names == {WithDots(b, k) : b \in Bases, k \in 0..MaxDots}
NamesOrNull == Names \cup {NULL}

\* ------------------------------------------------------------- the session
VARIABLES
    ctx,        \* struct tls: flags, state, servername, conn, transport, socket, error
    config,     \* ctx->config: ocsp_require_stapling, verify_name, keypair
    eng,        \* engine objects: allocs made, live (not freed), reset (client reset ran)
    open_fds,   \* descriptors open in the process that this file's code opened
    last        \* what the most recent public call did and returned

vars == <<ctx, config, eng, open_fds, last>>

\* A string-valued slot of the call record that the call did not reach.
NONE == <<"NONE">>

KeyTypes == {"none", "BR_KEYTYPE_RSA", "BR_KEYTYPE_EC", "BR_KEYTYPE_KEYX"}
Roles == {"TLS_CLIENT", "TLS_SERVER"}

\* The one allocation or configuration step that fails during a call, if any.
Faults == {"none", "strdup", "tls_conn_new", "tls_configure_x509"}
ConnectFaults == Faults \cup {"tls_host_port"}

\* ---------------------------------------------------- tls_connect_common
\* StripDot gone wrong: every trailing dot is dropped, not one.
RECURSIVE StripAllDots(_)
StripAllDots(s) ==
    IF strlen(s) > 0 /\ s[strlen(s)] = "."
    THEN StripAllDots(SubSeq(s, 1, strlen(s) - 1))
    ELSE s

\* StripDot gone wrong: the test reads the terminator, so nothing is dropped.
StripNoDot(s) == s

\* Lines 194-197: drop the last character when it is a dot.
StripDot(s) ==
    IF strlen(s) > 0 /\ s[strlen(s)] = "."
    THEN SubSeq(s, 1, strlen(s) - 1)
    ELSE s

\* SniOf gone wrong: the IPv6 test is left out.
SniOfV4Only(s) ==
    IF ~inet_pton4(s) THEN s ELSE NULL

\* Lines 203-208: the local servername after the literal test on ctx->servername.
SniOf(s) ==
    IF ~inet_pton4(s) /\ ~inet_pton6(s) THEN s ELSE NULL

\* The result of tls_connect_common: the session and engine after it, the return
\* value, and for the call record its argument, the SNI given to
\* br_ssl_client_reset (NONE when reset was not reached) and the connection
\* object tls_conn_new returned (0 when none).
CommonRet(c, e, rv, arg, sni, alloc) ==
    [ctx |-> c, eng |-> e, rv |-> rv, arg |-> arg, sni |-> sni, alloc |-> alloc]

CommonFail(c, e, msg, arg, alloc) ==
    CommonRet([c EXCEPT !.error = msg], e, -1, arg, NONE, alloc)

\* Lines 250-253: reset the engine client with the SNI, set TLS_CONNECTED.
CommonFinish(c, e, arg, sni, id) ==
    CommonRet([c EXCEPT !.state = @ \cup {"TLS_CONNECTED"}],
              [e EXCEPT !.reset = @ \cup {id}], 0, arg, sni, id)

\* Lines 224-241: the signer installed on the connection for the keypair's type.
KeySigner(kp) ==
    CASE kp = "BR_KEYTYPE_RSA" -> "br_rsa_pkcs1_sign"
      [] kp = "BR_KEYTYPE_EC" -> "br_ecdsa_sign_asn1"
      [] OTHER -> "none"

\* CommonConfigure gone wrong: verify_name is not looked at.
CommonConfigureNoVerify(c, e, cfg, arg, sni, fault) ==
    IF cfg.ocsp_require_stapling
    THEN CommonFail(c, e, "OCSP stapling is not supported", arg, 0)
    ELSE IF fault = "tls_conn_new"
    THEN CommonFail([c EXCEPT !.conn = 0], e, "connection context failure", arg, 0)
    ELSE LET id == e.allocs + 1
             c1 == [c EXCEPT !.conn = id]
             e1 == [e EXCEPT !.allocs = id, !.live = @ \cup {id}]
             e2 == [e1 EXCEPT !.signer = KeySigner(cfg.keypair)]
         IN IF fault = "tls_configure_x509"
            THEN CommonFail(c1, e1, "x509 configuration failure", arg, id)
            ELSE CommonFinish(c1, e2, arg, sni, id)

\* CommonConfigure gone wrong: ocsp_require_stapling is not looked at.
CommonConfigureNoOcsp(c, e, cfg, arg, sni, fault) ==
    IF fault = "tls_conn_new"
    THEN CommonFail([c EXCEPT !.conn = 0], e, "connection context failure", arg, 0)
    ELSE LET id == e.allocs + 1
             c1 == [c EXCEPT !.conn = id]
             e1 == [e EXCEPT !.allocs = id, !.live = @ \cup {id}]
             e2 == [e1 EXCEPT !.signer = KeySigner(cfg.keypair)]
         IN IF fault = "tls_configure_x509"
            THEN CommonFail(c1, e1, "x509 configuration failure", arg, id)
            ELSE IF cfg.verify_name /\ sni = NULL
            THEN CommonFail(c1, e2, "server name not specified", arg, id)
            ELSE CommonFinish(c1, e2, arg, sni, id)

\* Lines 211-248, after the servername block: sni is the local servername.
CommonConfigure(c, e, cfg, arg, sni, fault) ==
    IF cfg.ocsp_require_stapling
    THEN CommonFail(c, e, "OCSP stapling is not supported", arg, 0)
    ELSE IF fault = "tls_conn_new"
    THEN CommonFail([c EXCEPT !.conn = 0], e, "connection context failure", arg, 0)
    ELSE LET id == e.allocs + 1
             c1 == [c EXCEPT !.conn = id]
             e1 == [e EXCEPT !.allocs = id, !.live = @ \cup {id}]
             e2 == [e1 EXCEPT !.signer = KeySigner(cfg.keypair)]
         IN IF fault = "tls_configure_x509"
            THEN CommonFail(c1, e1, "x509 configuration failure", arg, id)
            ELSE IF cfg.verify_name /\ sni = NULL
            THEN CommonFail(c1, e2, "server name not specified", arg, id)
            ELSE CommonFinish(c1, e2, arg, sni, id)

\* tls_connect_common gone wrong: the session's flags are not looked at.
CommonNoRoleCheck(c, e, cfg, servername, fault) ==
    IF servername = NULL
    THEN CommonConfigure(c, e, cfg, servername, NULL, fault)
    ELSE IF fault = "strdup"
    THEN CommonFail([c EXCEPT !.servername = NULL], e, "out of memory", servername, 0)
    ELSE LET c1 == [c EXCEPT !.servername = StripDot(servername)]
         IN CommonConfigure(c1, e, cfg, servername, SniOf(c1.servername), fault)

\* Lines 177-209 (role test, servername block), then the configuration steps.
tls_connect_common(c, e, cfg, servername, fault) ==
    IF "TLS_CLIENT" \notin c.flags
    THEN CommonFail(c, e, "not a client context", servername, 0)
    ELSE IF servername = NULL
    THEN CommonConfigure(c, e, cfg, servername, NULL, fault)
    ELSE IF fault = "strdup"
    THEN CommonFail([c EXCEPT !.servername = NULL], e, "out of memory", servername, 0)
    ELSE LET c1 == [c EXCEPT !.servername = StripDot(servername)]
         IN CommonConfigure(c1, e, cfg, servername, SniOf(c1.servername), fault)

\* --------------------------------------------------------- tls_connect_fds
\* tls_connect_fds gone wrong: the descriptors are tested after the bootstrap.
FdsLateCheck(c, e, cfg, fd_read, fd_write, servername, fault) ==
    LET r == tls_connect_common(c, e, cfg, servername, fault)
    IN IF r.rv # 0 THEN r
       ELSE IF fd_read < 0 \/ fd_write < 0
       THEN [r EXCEPT !.ctx = [r.ctx EXCEPT !.error = "invalid file descriptors"],
                      !.rv = -1, !.arg = NONE, !.sni = NONE, !.alloc = 0]
       ELSE [r EXCEPT !.ctx = [r.ctx EXCEPT !.fd_read = fd_read,
                                            !.read_cb = "tls_fd_read_cb",
                                            !.fd_write = fd_write,
                                            !.write_cb = "tls_fd_write_cb",
                                            !.cb_arg = "NULL"]]

tls_connect_fds(c, e, cfg, fd_read, fd_write, servername, fault) ==
    IF fd_read < 0 \/ fd_write < 0
    THEN CommonFail(c, e, "invalid file descriptors", NONE, 0)
    ELSE LET r == tls_connect_common(c, e, cfg, servername, fault)
         IN IF r.rv # 0 THEN r
            ELSE [r EXCEPT !.ctx = [r.ctx EXCEPT !.fd_read = fd_read,
                                                 !.read_cb = "tls_fd_read_cb",
                                                 !.fd_write = fd_write,
                                                 !.write_cb = "tls_fd_write_cb",
                                                 !.cb_arg = "NULL"]]

tls_connect_socket(c, e, cfg, s, servername, fault) ==
    tls_connect_fds(c, e, cfg, s, s, servername, fault)

\* --------------------------------------------------------- tls_connect_cbs
tls_connect_cbs(c, e, cfg, read_cb, write_cb, cb_arg, servername, fault) ==
    LET r == tls_connect_common(c, e, cfg, servername, fault)
    IN IF r.rv # 0 THEN r
       ELSE IF read_cb = "NULL" \/ write_cb = "NULL"
       THEN [r EXCEPT !.ctx = [r.ctx EXCEPT !.error = "no callbacks provided"],
                      !.rv = -1]
       ELSE [r EXCEPT !.ctx = [r.ctx EXCEPT !.read_cb = read_cb,
                                            !.write_cb = write_cb,
                                            !.cb_arg = cb_arg]]

\* ------------------------------------------------- tls_connect_servername
\* What one candidate address does: connects, or fails in socket() or connect().
Outcomes == {"ok", "socket: EAFNOSUPPORT", "connect: ECONNREFUSED"}
CandLists == UNION {[1..n -> Outcomes] : n \in 1..MaxCands}

FirstIdx(s, ch) == CHOOSE i \in 1..Len(s) : s[i] = ch /\ \A j \in 1..(i - 1) : s[j] # ch

\* tls_host_port: ret 0 and the two halves when the string has one port
\* separator, ret 1 when it has none or more than one, ret -1 out of memory.
tls_host_port(hostport, fault) ==
    IF fault = "tls_host_port" THEN [ret |-> -1, hs |-> NULL, ps |-> NULL]
    ELSE IF Count(hostport, ":") # 1 THEN [ret |-> 1, hs |-> NULL, ps |-> NULL]
    ELSE LET i == FirstIdx(hostport, ":")
         IN [ret |-> 0, hs |-> SubSeq(hostport, 1, i - 1),
             ps |-> SubSeq(hostport, i + 1, Len(hostport))]

\* A service string getaddrinfo accepts without a services database.
PortOk(p) == Len(p) > 0 /\ \A i \in 1..Len(p) : p[i] \in Digits

\* One getaddrinfo call: the family asked for and the code it returned.
Gai(af, rc) == [af |-> af, rc |-> rc]

\* What a numeric-host call (AI_NUMERICHOST) of one family returns.
GaiNumeric(p, literal) ==
    IF ~PortOk(p) THEN "EAI_SERVICE" ELSE IF literal THEN "ok" ELSE "EAI_NONAME"

\* Resolve gone wrong: the name-resolving call is made first.
ResolveUnspecFirst(h, p, unspec) ==
    LET r3 == IF ~PortOk(p) THEN "EAI_SERVICE" ELSE unspec
        r4 == GaiNumeric(p, inet_pton4(h))
        r6 == GaiNumeric(p, inet_pton6(h))
    IN IF r3 = "ok" THEN [attempts |-> <<Gai("AF_UNSPEC", r3)>>, err |-> r3]
       ELSE IF r4 = "ok"
       THEN [attempts |-> <<Gai("AF_UNSPEC", r3), Gai("AF_INET", r4)>>, err |-> r4]
       ELSE [attempts |-> <<Gai("AF_UNSPEC", r3), Gai("AF_INET", r4),
                            Gai("AF_INET6", r6)>>, err |-> r6]

\* Resolve gone wrong: the code of the first failing call is the one kept.
ResolveFirstError(h, p, unspec) ==
    LET r4 == GaiNumeric(p, inet_pton4(h))
        r6 == GaiNumeric(p, inet_pton6(h))
        r3 == IF ~PortOk(p) THEN "EAI_SERVICE" ELSE unspec
    IN IF r4 = "ok" THEN [attempts |-> <<Gai("AF_INET", r4)>>, err |-> r4]
       ELSE IF r6 = "ok"
       THEN [attempts |-> <<Gai("AF_INET", r4), Gai("AF_INET6", r6)>>, err |-> r6]
       ELSE [attempts |-> <<Gai("AF_INET", r4), Gai("AF_INET6", r6),
                            Gai("AF_UNSPEC", r3)>>,
             err |-> IF r3 = "ok" THEN r3 ELSE r4]

\* Lines 108-126: the three getaddrinfo calls.  attempts lists the calls made
\* in order, err the code of the last one ("ok" when it succeeded).  The
\* numeric-host calls succeed exactly on a literal of their family; unspec is
\* what the name-resolving call returns.
Resolve(h, p, unspec) ==
    LET r4 == GaiNumeric(p, inet_pton4(h))
        r6 == GaiNumeric(p, inet_pton6(h))
        r3 == IF ~PortOk(p) THEN "EAI_SERVICE" ELSE unspec
    IN IF r4 = "ok" THEN [attempts |-> <<Gai("AF_INET", r4)>>, err |-> r4]
       ELSE IF r6 = "ok"
       THEN [attempts |-> <<Gai("AF_INET", r4), Gai("AF_INET6", r6)>>, err |-> r6]
       ELSE [attempts |-> <<Gai("AF_INET", r4), Gai("AF_INET6", r6),
                            Gai("AF_UNSPEC", r3)>>, err |-> r3]

Stdio == {0, 1, 2}

\* socket(): the lowest descriptor not in use.
NewFd(open) ==
    CHOOSE n \in 0..(Cardinality(open \cup Stdio)) :
        /\ n \notin open \cup Stdio
        /\ \A m \in 0..(n - 1) : m \in open \cup Stdio

\* ConnectLoop gone wrong: no break after a successful connect.
RECURSIVE ConnectLoopNoBreak(_, _, _)
ConnectLoopNoBreak(cands, i, k) ==
    IF i > Len(cands) THEN k
    ELSE IF cands[i] = "socket: EAFNOSUPPORT"
    THEN ConnectLoopNoBreak(cands, i + 1,
             [k EXCEPT !.s = -1, !.error = cands[i], !.tried = Append(@, i)])
    ELSE LET fd == NewFd(k.open)
         IN IF cands[i] = "connect: ECONNREFUSED"
            THEN ConnectLoopNoBreak(cands, i + 1,
                     [k EXCEPT !.s = -1, !.error = cands[i],
                               !.tried = Append(@, i), !.connd = Append(@, i),
                               !.opened = @ \cup {fd}])
            ELSE ConnectLoopNoBreak(cands, i + 1,
                     [k EXCEPT !.s = fd, !.open = @ \cup {fd},
                               !.tried = Append(@, i), !.connd = Append(@, i),
                               !.opened = @ \cup {fd}, !.peer = i])

\* ConnectLoop gone wrong: a failing socket() does not record its error.
RECURSIVE ConnectLoopSocketSilent(_, _, _)
ConnectLoopSocketSilent(cands, i, k) ==
    IF i > Len(cands) THEN k
    ELSE IF cands[i] = "socket: EAFNOSUPPORT"
    THEN ConnectLoopSocketSilent(cands, i + 1,
             [k EXCEPT !.s = -1, !.tried = Append(@, i)])
    ELSE LET fd == NewFd(k.open)
         IN IF cands[i] = "connect: ECONNREFUSED"
            THEN ConnectLoopSocketSilent(cands, i + 1,
                     [k EXCEPT !.s = -1, !.error = cands[i],
                               !.tried = Append(@, i), !.connd = Append(@, i),
                               !.opened = @ \cup {fd}])
            ELSE [k EXCEPT !.s = fd, !.open = @ \cup {fd},
                           !.tried = Append(@, i), !.connd = Append(@, i),
                           !.opened = @ \cup {fd}, !.peer = i]

\* Lines 129-144: the loop over the candidates from index i on.  k carries s,
\* the session error, the open descriptors, and for the call record the
\* candidates socket() and connect() were called for and every descriptor
\* socket() returned.
RECURSIVE ConnectLoop(_, _, _)
ConnectLoop(cands, i, k) ==
    IF i > Len(cands) THEN k
    ELSE IF cands[i] = "socket: EAFNOSUPPORT"
    THEN ConnectLoop(cands, i + 1,
             [k EXCEPT !.s = -1, !.error = cands[i], !.tried = Append(@, i)])
    ELSE LET fd == NewFd(k.open)
         IN IF cands[i] = "connect: ECONNREFUSED"
            THEN ConnectLoop(cands, i + 1,
                     [k EXCEPT !.s = -1, !.error = cands[i],
                               !.tried = Append(@, i), !.connd = Append(@, i),
                               !.opened = @ \cup {fd}])
            ELSE [k EXCEPT !.s = fd, !.open = @ \cup {fd},
                           !.tried = Append(@, i), !.connd = Append(@, i),
                           !.opened = @ \cup {fd}, !.peer = i]

\* The result of tls_connect_servername: r is the bootstrap's result (or the
\* session as the early exit left it), open the descriptors left open, and the
\* rest the call record of the resolver and the connector.
ConnectRet(r, open, h, gai, k) ==
    [ctx |-> r.ctx, eng |-> r.eng, rv |-> r.rv, arg |-> r.arg, sni |-> r.sni,
     alloc |-> r.alloc, open |-> open, h |-> h, gai |-> gai,
     tried |-> k.tried, connd |-> k.connd, opened |-> k.opened,
     s |-> k.s, peer |-> k.peer]

NoLoop(open) ==
    [s |-> -1, error |-> "NULL", open |-> open, tried |-> <<>>, connd |-> <<>>,
     opened |-> {}, peer |-> 0]

ConnectEarly(c, e, open, msg, h, gai) ==
    ConnectRet(CommonFail(c, e, msg, NONE, 0), open, h, gai, NoLoop(open))

\* ConnectAndBoot gone wrong: the socket is not closed when the bootstrap fails.
ConnectAndBootNoClose(c, e, cfg, open, h, gai, servername, env) ==
    LET k == ConnectLoop(env.cands, 1, [NoLoop(open) EXCEPT !.error = c.error])
        c1 == [c EXCEPT !.error = k.error]
    IN IF k.s = -1
       THEN ConnectRet(CommonRet(c1, e, -1, NONE, NONE, 0), k.open, h, gai, k)
       ELSE LET sn == IF servername = NULL THEN h ELSE servername
                r == tls_connect_socket(c1, e, cfg, k.s, sn, env.fault)
            IN IF r.rv # 0
               THEN ConnectRet(r, k.open, h, gai, k)
               ELSE ConnectRet([r EXCEPT !.ctx = [r.ctx EXCEPT !.socket = k.s]],
                               k.open, h, gai, k)

\* Lines 128-160: connect to the candidates, then bootstrap on the socket.
ConnectAndBoot(c, e, cfg, open, h, gai, servername, env) ==
    LET k == ConnectLoop(env.cands, 1, [NoLoop(open) EXCEPT !.error = c.error])
        c1 == [c EXCEPT !.error = k.error]
    IN IF k.s = -1
       THEN ConnectRet(CommonRet(c1, e, -1, NONE, NONE, 0), k.open, h, gai, k)
       ELSE LET sn == IF servername = NULL THEN h ELSE servername
                r == tls_connect_socket(c1, e, cfg, k.s, sn, env.fault)
            IN IF r.rv # 0
               THEN ConnectRet(r, k.open \ {k.s}, h, gai, k)
               ELSE ConnectRet([r EXCEPT !.ctx = [r.ctx EXCEPT !.socket = k.s]],
                               k.open, h, gai, k)

\* Lines 96-126: resolve h and p, then go on to connect.
ResolveAndConnect(c, e, cfg, open, h, p, servername, env) ==
    LET g == Resolve(h, p, env.unspec)
    IN IF g.err # "ok"
       THEN ConnectEarly(c, e, open, g.err, h, g.attempts)
       ELSE ConnectAndBoot(c, e, cfg, open, h, g.attempts, servername, env)

\* tls_connect_servername gone wrong: the servername defaults to host as it
\* was passed, not to the host part h.
ConnectServernameComposite(c, e, cfg, open, host, port, servername, env) ==
    LET sn == IF servername = NULL THEN host ELSE servername
    IN IF "TLS_CLIENT" \notin c.flags
       THEN ConnectEarly(c, e, open, "not a client context", NONE, <<>>)
       ELSE IF host = NULL
       THEN ConnectEarly(c, e, open, "host not specified", NONE, <<>>)
       ELSE IF port = NULL
       THEN LET hp == tls_host_port(host, env.fault)
            IN IF hp.ret = -1
               THEN ConnectEarly(c, e, open, "memory allocation failure", NONE, <<>>)
               ELSE IF hp.ret # 0
               THEN ConnectEarly(c, e, open, "no port provided", NONE, <<>>)
               ELSE ResolveAndConnect(c, e, cfg, open, hp.hs, hp.ps, sn, env)
       ELSE ResolveAndConnect(c, e, cfg, open, host, port, sn, env)

\* Lines 61-167: the role and host tests, the host:port split, then resolve,
\* connect and bootstrap.
tls_connect_servername(c, e, cfg, open, host, port, servername, env) ==
    IF "TLS_CLIENT" \notin c.flags
    THEN ConnectEarly(c, e, open, "not a client context", NONE, <<>>)
    ELSE IF host = NULL
    THEN ConnectEarly(c, e, open, "host not specified", NONE, <<>>)
    ELSE IF port = NULL
    THEN LET hp == tls_host_port(host, env.fault)
         IN IF hp.ret = -1
            THEN ConnectEarly(c, e, open, "memory allocation failure", NONE, <<>>)
            ELSE IF hp.ret # 0
            THEN ConnectEarly(c, e, open, "no port provided", NONE, <<>>)
            ELSE ResolveAndConnect(c, e, cfg, open, hp.hs, hp.ps, servername, env)
    ELSE ResolveAndConnect(c, e, cfg, open, host, port, servername, env)

tls_connect(c, e, cfg, open, host, port, env) ==
    tls_connect_servername(c, e, cfg, open, host, port, NULL, env)

\* ------------------------------------------------------------ the callers
\* Descriptors and callbacks the caller passes to the binders.
CallerFds == {-1, 10, 11}
FdPairs == CallerFds \X CallerFds
CbTriples == {"NULL", "user_read_cb"} \X {"NULL", "user_write_cb"} \X {"NULL", "user_arg"}

HostPort(n) == n \o <<":">> \o StrPort

\* host, port pairs of a connect call: a name with a port, a name alone, and
\* a "name:443" composite with no port argument.
HostArgs ==
    {<<NULL, StrPort>>}
        \cup {<<n, StrPort>> : n \in Names}
        \cup {<<n, NULL>> : n \in Names}
        \cup {<<HostPort(n), NULL>> : n \in Names}

\* What the environment does during one connect call.
\* One environment per behaviour a call can observe: the bootstrap's fault is
\* read only after a candidate connected, and nothing is read after a failing
\* name lookup or a failing tls_host_port.
HasOk(cands) == \E i \in 1..Len(cands) : cands[i] = "ok"

ConnectEnvs ==
    {env \in [fault : Faults, unspec : {"ok"}, cands : CandLists] :
        HasOk(env.cands) \/ env.fault = "none"}
        \cup {[fault |-> "none", unspec |-> "EAI_NONAME", cands |-> <<"ok">>],
              [fault |-> "none", unspec |-> "EAI_AGAIN", cands |-> <<"ok">>],
              [fault |-> "tls_host_port", unspec |-> "ok", cands |-> <<"ok">>]}

\* The smaller input sets of the runs that make several calls on one session.
SeqNames == {NULL, WithDots(StrExample, 1), StrV4}
SeqHostArgs == {<<WithDots(StrExample, 1), StrPort>>, <<HostPort(StrV4), NULL>>}
SeqFdPairs == {<<-1, 10>>, <<10, -1>>, <<10, 11>>}
SeqCbTriples ==
    {<<"NULL", "user_write_cb", "user_arg">>, <<"user_read_cb", "NULL", "user_arg">>,
     <<"user_read_cb", "user_write_cb", "user_arg">>}
SeqEnvs ==
    {[fault |-> "none", unspec |-> "ok", cands |-> <<"ok">>],
     [fault |-> "none", unspec |-> "ok", cands |-> <<"connect: ECONNREFUSED">>],
     [fault |-> "tls_configure_x509", unspec |-> "ok", cands |-> <<"ok">>],
     [fault |-> "none", unspec |-> "EAI_NONAME", cands |-> <<"ok">>]}

Configs ==
    [ocsp_require_stapling : BOOLEAN, verify_name : BOOLEAN, keypair : KeyTypes]

\* The call record of a binder call, which runs neither resolver nor connector.
\* fds are the descriptors passed (<<>> for tls_connect_cbs).
BindRecord(op, r, fds) ==
    [op |-> op, rv |-> r.rv, pre |-> ctx.state, arg |-> r.arg, sni |-> r.sni,
     alloc |-> r.alloc, h |-> NONE, gai |-> <<>>, cands |-> <<>>, tried |-> <<>>,
     connd |-> <<>>, opened |-> {}, s |-> -1, peer |-> 0, fds |-> fds,
     host |-> NONE, port |-> NONE, unspec |-> NONE]

\* The call record of a connect call: ha the host and port passed, env the
\* environment it ran in.
ConnectRecord(op, r, ha, env) ==
    [op |-> op, rv |-> r.rv, pre |-> ctx.state, arg |-> r.arg, sni |-> r.sni,
     alloc |-> r.alloc, h |-> r.h, gai |-> r.gai,
     cands |-> IF r.tried = <<>> THEN <<>> ELSE env.cands,
     tried |-> r.tried, connd |-> r.connd, opened |-> r.opened, s |-> r.s,
     peer |-> r.peer, fds |-> <<>>, host |-> ha[1], port |-> ha[2],
     unspec |-> IF r.gai = <<>> THEN NONE ELSE env.unspec]

\* tls_client(): a fresh context with the client flag; a context made by the
\* server constructor carries the server flag instead.
Init ==
    /\ \E role \in Roles :
          ctx = [flags |-> {role}, state |-> {}, servername |-> NULL, conn |-> 0,
                 fd_read |-> -1, fd_write |-> -1, read_cb |-> "NULL",
                 write_cb |-> "NULL", cb_arg |-> "NULL", socket |-> -1,
                 error |-> "NULL"]
    /\ config \in Configs
    /\ eng = [allocs |-> 0, live |-> {}, reset |-> {}, signer |-> "none"]
    /\ open_fds = {}
    /\ last = [op |-> "tls_client", rv |-> 0, pre |-> {}, arg |-> NONE, sni |-> NONE,
               alloc |-> 0, h |-> NONE, gai |-> <<>>, cands |-> <<>>, tried |-> <<>>,
               connd |-> <<>>, opened |-> {}, s |-> -1, peer |-> 0, fds |-> <<>>,
               host |-> NONE, port |-> NONE, unspec |-> NONE]

\* A call of tls_connect_fds with descriptors from FP and a servername from SN.
TlsConnectFds(FP, SN) ==
    \E fp \in FP, servername \in SN, fault \in Faults :
        LET r == tls_connect_fds(ctx, eng, config, fp[1], fp[2], servername, fault)
        IN /\ r.eng.allocs <= MaxConns
           /\ ctx' = r.ctx
           /\ eng' = r.eng
           /\ last' = BindRecord("tls_connect_fds", r, fp)
           /\ UNCHANGED <<config, open_fds>>

\* A call of tls_connect_cbs with callbacks from CB and a servername from SN.
TlsConnectCbs(CB, SN) ==
    \E cb \in CB, servername \in SN, fault \in Faults :
        LET r == tls_connect_cbs(ctx, eng, config, cb[1], cb[2], cb[3],
                                 servername, fault)
        IN /\ r.eng.allocs <= MaxConns
           /\ ctx' = r.ctx
           /\ eng' = r.eng
           /\ last' = BindRecord("tls_connect_cbs", r, <<>>)
           /\ UNCHANGED <<config, open_fds>>

\* A call of tls_connect with host and port from HA under an environment of EN.
TlsConnect(HA, EN) ==
    \E ha \in HA, env \in EN :
        LET r == tls_connect(ctx, eng, config, open_fds, ha[1], ha[2], env)
        IN /\ r.eng.allocs <= MaxConns
           /\ ctx' = r.ctx
           /\ eng' = r.eng
           /\ open_fds' = r.open
           /\ last' = ConnectRecord("tls_connect", r, ha, env)
           /\ UNCHANGED config

\* A call of tls_connect_servername with an explicit servername from SN.
TlsConnectServername(HA, SN, EN) ==
    \E ha \in HA, servername \in SN, env \in EN :
        LET r == tls_connect_servername(ctx, eng, config, open_fds, ha[1], ha[2],
                                        servername, env)
        IN /\ r.eng.allocs <= MaxConns
           /\ ctx' = r.ctx
           /\ eng' = r.eng
           /\ open_fds' = r.open
           /\ last' = ConnectRecord("tls_connect_servername", r, ha, env)
           /\ UNCHANGED config

\* Any sequence of public calls on one session.
Next ==
    \/ TlsConnectFds(SeqFdPairs, SeqNames)
    \/ TlsConnectCbs(SeqCbTriples, SeqNames)
    \/ TlsConnect(SeqHostArgs, SeqEnvs)
    \/ TlsConnectServername({<<StrV4, StrPort>>}, SeqNames \ {NULL}, SeqEnvs)

Spec == Init /\ [][Next]_vars

\* The first public call on a fresh session, over the full input sets.
Fresh == last.op = "tls_client"

NextCall ==
    \/ Fresh /\ TlsConnectFds(FdPairs, NamesOrNull)
    \/ Fresh /\ TlsConnectCbs(CbTriples, NamesOrNull)
    \/ Fresh /\ TlsConnect(HostArgs, ConnectEnvs)
    \/ Fresh /\ TlsConnectServername({<<StrExample, StrPort>>, <<StrV4, StrPort>>},
                                     Names, ConnectEnvs)

SpecCall == Init /\ [][NextCall]_vars

\* ------------------------------------------------------------- properties
Connected == "TLS_CONNECTED" \in ctx.state
Transport == <<ctx.read_cb, ctx.write_cb, ctx.fd_read, ctx.fd_write, ctx.cb_arg>>
TransportBound == ctx.read_cb # "NULL"
BinderOps == {"tls_connect_fds", "tls_connect_cbs"}
ConnectOps == {"tls_connect", "tls_connect_servername"}
PublicOps == BinderOps \cup ConnectOps

EndsWithDot(s) == Len(s) > 0 /\ s[Len(s)] = "."
EndsWithTwoDots(s) == Len(s) > 1 /\ s[Len(s)] = "." /\ s[Len(s) - 1] = "."
IsLiteral(s) == inet_pton4(s) \/ inet_pton6(s)
\* t is s with exactly one trailing dot removed when s has one, else s itself.
OneDotRemoved(s, t) == IF EndsWithDot(s) THEN s = Append(t, ".") ELSE t = s
\* The call reached tls_connect_common with a non-null servername.
ArgGiven == last.arg # NONE /\ last.arg # NULL
\* The call reached br_ssl_client_reset.
ResetRan == last.sni # NONE

\* The binder whose transport the session carries.
BoundBy == IF ctx.read_cb = "tls_fd_read_cb" THEN "tls_connect_fds" ELSE "tls_connect_cbs"

\* C1: once a transport is bound on a session (read callback installed), no
\* later call changes the read/write callbacks, the descriptors or the
\* callback argument: the first binding stands and a binding of the other kind
\* is refused.
C1_TransportSetOnce ==
    [][TransportBound => /\ Transport' = Transport
                         /\ last'.op \in BinderOps \ {BoundBy} => last'.rv = -1]_vars

\* C2: once the session is connected, every further call of an entry point
\* fails and allocates no second connection object, leaves servername as it
\* was and does not reset the engine again.
C2_BootstrapOnce ==
    [][Connected => /\ last'.rv = -1
                    /\ eng'.allocs = eng.allocs
                    /\ ctx'.servername = ctx.servername
                    /\ eng'.reset = eng.reset]_vars

\* C3: a public call that started on a not-connected session and returned
\* failure leaves the session not connected.
C3_FailureLeavesUnconnected ==
    (last.op \in PublicOps /\ last.pre = {} /\ last.rv = -1) => ~Connected

\* C4: when the bootstrap fails after tls_conn_new returned an object (reset
\* not reached), that object has been released and the session does not hold it.
C4_FailedBootstrapReleasesConn ==
    (last.alloc # 0 /\ ~ResetRan) => (last.alloc \notin eng.live /\ ctx.conn = 0)

\* C5 as stated: the session's servername field is never an IPv4 or IPv6 literal.
C5_ServernameNeverLiteral ==
    ctx.servername # NULL => ~IsLiteral(ctx.servername)

\* C5 as amended: the SNI handed to the engine's client reset is never an IPv4
\* or IPv6 literal; when the input with one trailing dot removed is a literal,
\* the SNI handed over is absent while the servername field holds that literal.
C5_SniNeverLiteral ==
    /\ (ResetRan /\ last.sni # NULL) => ~IsLiteral(last.sni)
    /\ (ResetRan /\ ArgGiven) =>
          \A t \in {last.arg, SubSeq(last.arg, 1, Len(last.arg) - 1)} :
              (OneDotRemoved(last.arg, t) /\ IsLiteral(t)) =>
                  (last.sni = NULL /\ ctx.servername = t)

\* C5 witness: a bootstrap completed on a literal: servername field is the
\* literal, the engine got no SNI.
C5_Witness ==
    /\ last.rv = 0 /\ ArgGiven
    /\ ctx.servername # NULL /\ IsLiteral(ctx.servername)
    /\ last.sni = NULL

\* C6 as stated: the servername field, when present, never ends with a dot.
C6_ServernameNoTrailingDot ==
    ctx.servername # NULL => ~EndsWithDot(ctx.servername)

\* C6 as amended: exactly one trailing dot is removed, so the servername field
\* ends with a dot exactly when the string supplied ended with two or more.
C6_OneDotStripped ==
    ctx.servername # NULL =>
        /\ ArgGiven
        /\ EndsWithDot(ctx.servername) <=> EndsWithTwoDots(last.arg)

\* C6 witness: a name supplied with a single trailing dot was stored without
\* it, and one supplied with two was stored with one.
C6_Witness ==
    /\ ctx.servername # NULL /\ ArgGiven
    /\ EndsWithTwoDots(last.arg) /\ EndsWithDot(ctx.servername)
    /\ ~EndsWithTwoDots(ctx.servername)

\* C7: the SNI given to br_ssl_client_reset is absent for a null input and for
\* an input that is a literal once one trailing dot is removed, and otherwise
\* the input with exactly one trailing dot removed; "example.com." gives
\* "example.com" and "192.0.2.1" gives absent.
C7_SniIsCanonical ==
    ResetRan =>
        /\ last.arg = NULL => last.sni = NULL
        /\ ArgGiven =>
              \E t \in {last.arg, SubSeq(last.arg, 1, Len(last.arg) - 1)} :
                  /\ OneDotRemoved(last.arg, t)
                  /\ last.sni = IF IsLiteral(t) THEN NULL ELSE t
        /\ last.arg = Append(StrExample, ".") => last.sni = StrExample
        /\ last.arg = StrV4 => last.sni = NULL

\* C7 witness: "example.com." reached the engine as "example.com".
C7_Witness ==
    last.rv = 0 /\ last.arg = Append(StrExample, ".") /\ last.sni = StrExample

\* The connector ran on the candidate list last.cands.
LoopRan == last.op \in ConnectOps /\ last.cands # <<>>
AllFail(cands) == \A i \in 1..Len(cands) : cands[i] # "ok"
Upto(n) == [i \in 1..n |-> i]
\* The candidates of i..n whose socket() succeeded, in order.
RECURSIVE Kept(_, _, _)
Kept(cands, i, n) ==
    IF i > n THEN <<>>
    ELSE IF cands[i] # "socket: EAFNOSUPPORT" THEN <<i>> \o Kept(cands, i + 1, n)
    ELSE Kept(cands, i + 1, n)

\* C8: when the first N candidates fail and candidate N+1 connects, the
\* descriptor returned is the one connected to candidate N+1, socket() was
\* called once for each of candidates 1..N+1 in order and for no later one, and
\* connect() once for each of those whose socket() succeeded.
C8_FirstSuccessWins ==
    LoopRan =>
        \A j \in 1..Len(last.cands) :
            (last.cands[j] = "ok" /\ \A i \in 1..(j - 1) : last.cands[i] # "ok") =>
                /\ last.peer = j
                /\ last.s >= 0 /\ last.s \in last.opened
                /\ last.tried = Upto(j)
                /\ last.connd = Kept(last.cands, 1, j)
                /\ last.rv = 0 => (ctx.socket = last.s /\ ctx.fd_read = last.s)

\* C8 witness: one candidate failed, the second connected, a third was left.
C8_Witness ==
    /\ LoopRan /\ Len(last.cands) = 3
    /\ last.cands[1] # "ok" /\ last.cands[2] = "ok"
    /\ last.peer = 2 /\ last.rv = 0

\* C9: after a failing connect call every socket it opened is closed and the
\* session's socket field is none of them; after a succeeding one exactly one
\* of them is open and it is the session's socket.
C9_SocketsUnwound ==
    last.op \in ConnectOps =>
        /\ last.rv = -1 => (last.opened \cap open_fds = {} /\ ctx.socket \notin last.opened)
        /\ last.rv = 0 => (last.opened \cap open_fds = {ctx.socket} /\ ctx.socket = last.s)

\* C9 witness: a candidate connected, the bootstrap on its socket failed, and
\* the call left nothing open.
C9_Witness ==
    /\ last.op \in ConnectOps /\ last.rv = -1
    /\ last.s >= 0 /\ last.s \in last.opened
    /\ open_fds = {}

\* C10: when every candidate fails the call fails and the session's error is
\* the error of the last candidate.
C10_LastCandidateError ==
    (LoopRan /\ AllFail(last.cands)) =>
        /\ last.rv = -1
        /\ last.tried = Upto(Len(last.cands))
        /\ ctx.error = last.cands[Len(last.cands)]

\* C10 witness: two candidates failed in different ways and the second's
\* error is the one reported.
C10_Witness ==
    /\ LoopRan /\ AllFail(last.cands) /\ Len(last.cands) >= 2
    /\ last.cands[1] # last.cands[Len(last.cands)]
    /\ ctx.error = last.cands[Len(last.cands)]

\* ------------------------------------------------------ resolver claims
GaiOrder == <<"AF_INET", "AF_INET6", "AF_UNSPEC">>
\* The resolver was called and its last call failed.
ResolveFailed == last.gai # <<>> /\ last.gai[Len(last.gai)].rc # "ok"
\* The connector ran on the resolver's candidates.
ConnectorRan == last.tried # <<>>

\* C11: a connect call invokes the resolver as IPv4-numeric, then
\* IPv6-numeric, then unconstrained, each call made only when every earlier
\* one failed; for a host that is an IPv4 or IPv6 literal (with a numeric
\* port) the unconstrained call is never made and resolution succeeds, the
\* connector running on its result whatever the unconstrained call would
\* have returned.
C11_ResolverOrder ==
    last.op \in ConnectOps /\ last.gai # <<>> =>
        /\ Len(last.gai) <= 3
        /\ \A i \in 1..Len(last.gai) : last.gai[i].af = GaiOrder[i]
        /\ \A i \in 1..(Len(last.gai) - 1) : last.gai[i].rc # "ok"
        /\ IsLiteral(last.h) /\ last.gai[1].rc # "EAI_SERVICE" =>
              /\ \A i \in 1..Len(last.gai) : last.gai[i].af # "AF_UNSPEC"
              /\ ~ResolveFailed
              /\ ConnectorRan

\* An IPv6 literal is resolved by the second call and connected although the
\* unconstrained call would have failed.
C11_Witness ==
    /\ last.op = "tls_connect" /\ last.h = StrV6 /\ last.unspec = "EAI_NONAME"
    /\ Len(last.gai) = 2 /\ last.gai[1].rc = "EAI_NONAME" /\ last.gai[2].rc = "ok"
    /\ last.rv = 0 /\ Connected

\* C12: when all three resolver calls fail, the connect call fails, the
\* session's error is the code of the third (unconstrained) call and of no
\* earlier one, no socket is created, no candidate is tried, no connection
\* object is allocated, and the session is as unconnected as before.
C12_ResolveFailure ==
    last.op \in ConnectOps /\ Len(last.gai) = 3 /\ ResolveFailed =>
        /\ last.rv = -1
        /\ ctx.error = last.gai[3].rc
        /\ last.opened = {} /\ open_fds = {} /\ ~ConnectorRan
        /\ last.alloc = 0 /\ eng.allocs = 0 /\ ctx.conn = 0
        /\ ctx.state = last.pre /\ ~Connected

\* The name lookup fails with a code other than the numeric calls' code, and
\* that code is the session's error.
C12_Witness ==
    /\ last.op = "tls_connect" /\ Len(last.gai) = 3
    /\ last.gai[1].rc = "EAI_NONAME" /\ last.gai[2].rc = "EAI_NONAME"
    /\ last.gai[3].rc = "EAI_AGAIN" /\ ctx.error = "EAI_AGAIN" /\ last.rv = -1

\* ----------------------------------------------------- bootstrap claims
\* The canonical SNI of servername argument a is absent: a is null, or a
\* literal once one trailing dot is removed.
SniAbsentFor(a) ==
    \/ a = NULL
    \/ \E t \in {a, SubSeq(a, 1, Len(a) - 1)} : OneDotRemoved(a, t) /\ IsLiteral(t)
\* The call reached tls_connect_common.
BootstrapRan == last.op \in PublicOps /\ last.arg # NONE

\* C13: with verify_name set, a bootstrap whose canonical SNI is absent (null
\* servername, or an IP literal) fails, br_ssl_client_reset is not invoked,
\* the session stays not connected, and unless an earlier step of the
\* bootstrap failed the error is "server name not specified".
C13_VerifyNeedsName ==
    config.verify_name /\ BootstrapRan /\ SniAbsentFor(last.arg) =>
        /\ last.rv = -1
        /\ ~ResetRan /\ eng.reset = {}
        /\ ctx.state = last.pre /\ ~Connected
        /\ last.alloc # 0 /\ ctx.error # "x509 configuration failure" =>
              ctx.error = "server name not specified"

\* A connect to an IPv4 literal with a trailing dot, verification required:
\* the socket connected, the bootstrap refused for want of a name.
C13_Witness ==
    /\ config.verify_name /\ last.op = "tls_connect"
    /\ last.arg = Append(StrV4, ".") /\ last.s >= 0
    /\ last.rv = -1 /\ ctx.error = "server name not specified"
    /\ last.alloc # 0 /\ ~ResetRan /\ ~Connected

\* C14: tls_connect_fds with a negative read or write descriptor fails with
\* "invalid file descriptors" before the bootstrap runs: nothing of the
\* session but its error changes (servername, state, transport and connection
\* object included) and the engine allocates nothing.
C14_InvalidFdsRejected ==
    [][(last'.op = "tls_connect_fds" /\ (last'.fds[1] < 0 \/ last'.fds[2] < 0)) =>
          /\ last'.rv = -1
          /\ ctx' = [ctx EXCEPT !.error = "invalid file descriptors"]
          /\ eng' = eng
          /\ last'.arg = NONE /\ last'.alloc = 0]_vars

\* A client session after tls_connect_fds with read descriptor -1.
C14_Witness ==
    /\ last.op = "tls_connect_fds" /\ last.fds = <<-1, 10>>
    /\ "TLS_CLIENT" \in ctx.flags
    /\ last.rv = -1 /\ ctx.error = "invalid file descriptors"
    /\ eng.allocs = 0 /\ ctx.servername = NULL /\ ~Connected /\ ~TransportBound

\* C15 as stated: with a keypair whose type is neither RSA nor EC, a
\* bootstrap fails at the credential step: it returns failure, does not invoke
\* br_ssl_client_reset and does not make the session connected.
C15_UnknownKeyTypeRejected ==
    (config.keypair \notin {"none", "BR_KEYTYPE_RSA", "BR_KEYTYPE_EC"} /\ BootstrapRan) =>
        /\ last.rv = -1
        /\ ~ResetRan
        /\ ~Connected

\* C16: on a session without the client flag every public call fails without
\* calling the resolver, opening a socket or allocating a connection object,
\* and leaves servername, state, transport, connection object and socket of
\* the session as they were.
C16_NonClientRefused ==
    [][("TLS_CLIENT" \notin ctx.flags /\ last'.op \in PublicOps) =>
          /\ last'.rv = -1
          /\ last'.gai = <<>> /\ last'.tried = <<>> /\ last'.opened = {}
          /\ open_fds' = open_fds
          /\ last'.alloc = 0 /\ eng' = eng
          /\ ctx'.servername = ctx.servername /\ ctx'.state = ctx.state
          /\ Transport' = Transport
          /\ ctx'.conn = ctx.conn /\ ctx'.socket = ctx.socket]_vars

\* A server session after tls_connect to a host it was given.
C16_Witness ==
    /\ "TLS_CLIENT" \notin ctx.flags /\ last.op = "tls_connect"
    /\ last.host = StrExample /\ last.port = StrPort
    /\ last.rv = -1 /\ ctx.error = "not a client context"
    /\ last.gai = <<>> /\ open_fds = {} /\ eng.allocs = 0

\* C17: with ocsp_require_stapling set every public call fails, no connection
\* object is allocated and the session stays not connected; a bootstrap that
\* got past the role test and the servername copy fails with "OCSP stapling is
\* not supported".
C17_OcspRefused ==
    (config.ocsp_require_stapling /\ last.op \in PublicOps) =>
        /\ last.rv = -1
        /\ last.alloc = 0 /\ eng.allocs = 0 /\ ctx.conn = 0
        /\ ~ResetRan /\ ~Connected
        /\ (BootstrapRan /\ "TLS_CLIENT" \in ctx.flags /\ ctx.error # "out of memory") =>
              ctx.error = "OCSP stapling is not supported"

\* A connect whose socket connected and whose bootstrap was refused for the
\* stapling requirement, the socket closed again.
C17_Witness ==
    /\ config.ocsp_require_stapling /\ last.op = "tls_connect"
    /\ last.s >= 0 /\ BootstrapRan
    /\ last.rv = -1 /\ ctx.error = "OCSP stapling is not supported"
    /\ last.alloc = 0 /\ eng.allocs = 0 /\ open_fds = {} /\ ~Connected

\* ------------------------------------------------------- session claims
\* The host part of a connect call's arguments: host itself when a port was
\* passed, else what stands before the port separator.
HostPart(host, port) ==
    IF port # NULL THEN host ELSE SubSeq(host, 1, FirstIdx(host, ":") - 1)

\* C18: after a connect call that succeeded the read descriptor, the write
\* descriptor and the session's socket are the descriptor the connector
\* connected, the callbacks are tls_fd_read_cb and tls_fd_write_cb and the
\* callback argument is null; when tls_connect passed no servername, the
\* servername given to the bootstrap is the host part h, which for a
\* "host:port" string passed without a port is the part before the separator
\* and not the string itself.
C18_ConnectBindsSocket ==
    (last.op \in ConnectOps /\ last.rv = 0) =>
        /\ last.s >= 0 /\ last.s \in last.opened /\ last.s \in open_fds
        /\ ctx.fd_read = last.s /\ ctx.fd_write = last.s /\ ctx.socket = last.s
        /\ ctx.read_cb = "tls_fd_read_cb" /\ ctx.write_cb = "tls_fd_write_cb"
        /\ ctx.cb_arg = "NULL"
        /\ last.h = HostPart(last.host, last.port)
        /\ last.op = "tls_connect" =>
              /\ last.arg = last.h
              /\ last.port = NULL => last.arg # last.host

\* tls_connect("example.com:443", NULL) succeeded: the socket is the
\* transport and the bootstrap was given "example.com".
C18_Witness ==
    /\ last.op = "tls_connect" /\ last.rv = 0
    /\ last.host = HostPort(StrExample) /\ last.port = NULL
    /\ last.arg = StrExample /\ last.sni = StrExample
    /\ ctx.fd_read = last.s /\ ctx.fd_write = last.s /\ ctx.socket = last.s
    /\ last.s >= 0 /\ ctx.read_cb = "tls_fd_read_cb" /\ ctx.cb_arg = "NULL"

\* C19 as stated: whenever a bootstrap with verify_name set reached
\* br_ssl_client_reset and made the session connected, the SNI it handed over
\* is present, non-empty and not an IPv4 or IPv6 literal.
C19_VerifiedSniNonEmpty ==
    (config.verify_name /\ ResetRan /\ Connected) =>
        /\ last.sni # NULL
        /\ last.sni # StrEmpty
        /\ ~IsLiteral(last.sni)

\* C20 as stated: over any sequence of public calls a connected session has
\* a connection object allocated and br_ssl_client_reset was invoked on that
\* object, and TLS_CONNECTED is never cleared once set.
C20_ConnectedHasResetConn ==
    /\ [](Connected => (ctx.conn # 0 /\ ctx.conn \in eng.live /\ ctx.conn \in eng.reset))
    /\ [][Connected => Connected']_vars


====
